---- MODULE Spec2Model ----
(***************************************************************************)
(* Timetable resolution and lesson-status override lifecycle of webapp.py, *)
(* followed by its assessment store: score computation, CSV import, score  *)
(* update, grade override, creation and deletion of assessments.           *)
(*                                                                         *)
(* The timetable table is a set of rows.  Calendar dates are day numbers:  *)
(* day 1 is the Monday of the week shown with week offset 0, so that the   *)
(* ISO strings the code compares ('YYYY-MM-DD', compared as text by        *)
(* SQLite) order exactly as these numbers do.  SQL NULL in an integer or   *)
(* date column is NULL; in a text column it is the string "NULL".  A       *)
(* fetchone() over several matching rows is a choice among them.           *)
(***************************************************************************)
EXTENDS Integers, Sequences, FiniteSets, TLC

\* ------------------------------------------------------------------ bounds
MaxId == 4
MaxWeek == 2
MaxLog == 3
MaxPerfId == 1

\* --------------------------------------------------------------- constants
NULL == 0
NullText == "NULL"
Missing == NULL

SCHEDULE_PATTERN ==
    << [period |-> 1], [period |-> 2], [break |-> 25],
       [period |-> 3], [period |-> 4], [break |-> 20],
       [period |-> 5], [period |-> 6], [break |-> 45],
       [period |-> 8], [period |-> 9] >>

HasPeriod(slot) == "period" \in DOMAIN slot

period_list ==
    LET sel == SelectSeq(SCHEDULE_PATTERN, HasPeriod)
    IN  [i \in 1..Len(sel) |-> sel[i].period]

PeriodSet == {period_list[i] : i \in 1..Len(period_list)}

day_labels == <<"Montag", "Dienstag", "Mittwoch", "Donnerstag", "Freitag">>

DayIdxs == 0..(Len(day_labels) - 1)

WeekOffsets == 0..MaxWeek

\* start_monday = monday + timedelta(weeks=week_offset)
start_monday(week_offset) == 1 + 7 * week_offset

\* dates = [start_monday + timedelta(days=i) for i in range(5)]
date_strs(week_offset) ==
    [i \in 1..Len(day_labels) |-> start_monday(week_offset) + (i - 1)]

\* Position of a calendar date in its week: 0 = Monday .. 6 = Sunday.
Weekday(d) == (d - 1) % 7

\* The weekday name of a date shown on the home page.
DayNameOf(d) == day_labels[Weekday(d) + 1]

Statuses == {"cancelled", "moved"}

\* Dates a request may carry: the Monday and Tuesday of week 0 and the
\* Monday of week 1.
InputDates == {1, 2, 8}

\* ------------------------------------------------------------------- state
VARIABLES
    timetable,          \* the rows of table timetable
    schedule_entries,   \* the dict built by the last home view, or NoView
    request,            \* the request the last handler served
    response,           \* the HTTP status codes the last handler wrote
    performance_queries,       \* rows of table performance_queries
    performance_tasks,         \* rows of table performance_tasks
    performance_results,       \* rows of table performance_results
    performance_task_results,  \* rows of table performance_task_results
    grade_scales,              \* rows of table grade_scales
    change_log,                \* the number of rows of table change_log
    updated_data               \* what the last score computation gave

vars == <<timetable, schedule_entries, request, response,
          performance_queries, performance_tasks, performance_results,
          performance_task_results, grade_scales, change_log, updated_data>>

NoRow == [id |-> NULL]
NoView == <<>>

Row(id, class_id, course_id, period, is_double, day, date, subject_id, room, status) ==
    [id |-> id, class_id |-> class_id, course_id |-> course_id, period |-> period,
     is_double |-> is_double, slot |-> period, day |-> day, time_range |-> NullText,
     date |-> date, subject_id |-> subject_id, room |-> room, status |-> status]

\* The weekly default plan (date = NULL) the store starts with.  Two of the
\* seeded Monday rows are kept, numbered 1 and 2: the double lesson of class
\* 5f in period 1 (course_id NULL) and the single lesson of course 8fs in
\* period 8 (a course row carries its class_id too).
populate_default_timetable ==
    { Row(1, 1, NULL, 1, TRUE, "Montag", NULL, 1, "212", NullText),
      Row(2, 2, 1, 8, FALSE, "Montag", NULL, 2, "239", NullText) }

Ids(tt) == {r.id : r \in tt}

SetMax(S) == CHOOSE x \in S : \A y \in S : y <= x

\* INTEGER PRIMARY KEY without AUTOINCREMENT: largest rowid in use plus one.
NewId(tt) == IF tt = {} THEN 1 ELSE SetMax(Ids(tt)) + 1

\* ------------------------------------------------------ assessment store
\* A REAL is held as a whole number of twentieths (0.05), which represents
\* quarter points and the tenths of the seeded grade scale exactly.
Unit == 20

\* Column values: a REAL, SQL NULL (Python None) or a TEXT kept as it came.
Real(v) == <<"real", v>>
None == <<"null">>
Text(s) == <<"text", s>>
IsReal(x) == x[1] = "real"

\* The numerals that occur in forms, CSV cells, JSON strings and scale lines.
numerals ==
    ("0" :> 0) @@ ("0.0" :> 0) @@ ("0.25" :> 5) @@ ("0.5" :> 10) @@
    ("0.75" :> 15) @@ ("1" :> 20) @@ ("1.5" :> 30) @@ ("2" :> 40) @@
    ("2.0" :> 40) @@ ("4" :> 80) @@
    ("19.0" :> 19 * Unit) @@ ("25" :> 25 * Unit) @@ ("31.5" :> 630) @@
    ("32.0" :> 32 * Unit) @@
    ("44.0" :> 44 * Unit) @@ ("50" :> 50 * Unit) @@ ("51.0" :> 51 * Unit) @@
    ("58.0" :> 58 * Unit) @@ ("65.0" :> 65 * Unit) @@ ("72.0" :> 72 * Unit) @@
    ("75" :> 75 * Unit) @@ ("79.0" :> 79 * Unit) @@ ("86.0" :> 86 * Unit) @@
    ("93.0" :> 93 * Unit) @@ ("100" :> 100 * Unit) @@ ("100.1" :> 2002)

\* Python float(str): the value of a numeral, NaN for "nan", ValueError for
\* any other text (the empty string included).
float(s) ==
    IF s \in DOMAIN numerals THEN Real(numerals[s])
    ELSE IF s = "nan" THEN <<"nan">>
    ELSE <<"ValueError">>

\* sqlite3 binds a NaN as NULL.
Bind(x) == IF x = <<"nan">> THEN None ELSE x

\* Mutant: the band of grade 5.0 starting at 32.0, which leaves [31.5, 32.0)
\* to no band.
default_def_with_gap ==
    << <<"1.0", "93.0", "100.1">>, <<"1.5", "86.0", "93.0">>,
       <<"2.0", "79.0", "86.0">>,  <<"2.5", "72.0", "79.0">>,
       <<"3.0", "65.0", "72.0">>,  <<"3.5", "58.0", "65.0">>,
       <<"4.0", "51.0", "58.0">>,  <<"4.5", "44.0", "51.0">>,
       <<"5.0", "32.0", "44.0">>,  <<"5.5", "19.0", "31.5">>,
       <<"6.0", "0.0", "19.0">> >>

\* A scale definition is its text split into lines and each line split at
\* ';' with the parts stripped.
default_def ==
    << <<"1.0", "93.0", "100.1">>, <<"1.5", "86.0", "93.0">>,
       <<"2.0", "79.0", "86.0">>,  <<"2.5", "72.0", "79.0">>,
       <<"3.0", "65.0", "72.0">>,  <<"3.5", "58.0", "65.0">>,
       <<"4.0", "51.0", "58.0">>,  <<"4.5", "44.0", "51.0">>,
       <<"5.0", "31.5", "44.0">>,  <<"5.5", "19.0", "31.5">>,
       <<"6.0", "0.0", "19.0">> >>

\* The one grade scale a fresh database is given.
default_grade_scales == { [id |-> 1, definition |-> default_def] }

PerfRow(id, grade_scale_id) == [id |-> id, grade_scale_id |-> grade_scale_id]

TaskRow(id, performance_id, number, max_points) ==
    [id |-> id, performance_id |-> performance_id, number |-> number,
     max_points |-> max_points]

ResultRow(id, performance_id, student_id, op_points, zp_points) ==
    [id |-> id, performance_id |-> performance_id, student_id |-> student_id,
     op_points |-> op_points, zp_points |-> zp_points, grade_override |-> None,
     comment |-> None, op_is_edited |-> 0, zp_is_edited |-> 0]

TaskResultRow(id, performance_id, student_id, task_number, points, is_edited) ==
    [id |-> id, performance_id |-> performance_id, student_id |-> student_id,
     task_number |-> task_number, points |-> points, is_edited |-> is_edited]

\* The tables a cursor reads and writes, as one value.
Cursor(queries, tasks, results, task_results, scales) ==
    [performance_queries |-> queries, performance_tasks |-> tasks,
     performance_results |-> results, performance_task_results |-> task_results,
     grade_scales |-> scales]

cur == Cursor(performance_queries, performance_tasks, performance_results,
              performance_task_results, grade_scales)

store_vars == <<performance_queries, performance_tasks, performance_results,
                performance_task_results, grade_scales>>

timetable_vars == <<timetable, schedule_entries>>

\* No score computed by the last request.
NoData == <<>>

\* A fresh database: the default grade scale, no assessment, an empty log.
EmptyStore ==
    /\ performance_queries = {}
    /\ performance_tasks = {}
    /\ performance_results = {}
    /\ performance_task_results = {}
    /\ grade_scales = default_grade_scales
    /\ change_log = 0
    /\ updated_data = NoData

Init ==
    /\ timetable = populate_default_timetable
    /\ schedule_entries = NoView
    /\ request = [handler |-> "none"]
    /\ response = <<>>
    /\ EmptyStore

\* ------------------------------------------------- timetable resolution
\* WHERE t.date=? AND t.period=?
ExactDateRows(tt, date_str, period) ==
    {r \in tt : r.date # NULL /\ r.date = date_str /\ r.period = period}

\* Mutant: the past-override query without its weekday filter.
PastOverrideCandidatesAnyDay(tt, date_str, day_name, period) ==
    {r \in tt : r.date # NULL /\ r.date < date_str /\ r.period = period}

\* WHERE t.date IS NOT NULL AND t.date < ? AND t.day=? AND t.period=?
PastOverrideCandidates(tt, date_str, day_name, period) ==
    {r \in tt : r.date # NULL /\ r.date < date_str /\ r.day = day_name /\ r.period = period}

\* Mutant: ORDER BY t.date ASC.
PastOverrideRowsOldest(tt, date_str, day_name, period) ==
    LET cand == PastOverrideCandidates(tt, date_str, day_name, period)
    IN  {r \in cand : \A q \in cand : r.date <= q.date}

\* ... ORDER BY t.date DESC LIMIT 1: a row of the greatest date.
PastOverrideRows(tt, date_str, day_name, period) ==
    LET cand == PastOverrideCandidates(tt, date_str, day_name, period)
    IN  {r \in cand : \A q \in cand : q.date <= r.date}

\* WHERE t.date IS NULL AND t.day=? AND t.period=?
TemplateRows(tt, day_name, period) ==
    {r \in tt : r.date = NULL /\ r.day = day_name /\ r.period = period}

\* Mutant: the template query runs first.
OwnRowsTemplateFirst(tt, date_str, day_name, period) ==
    IF TemplateRows(tt, day_name, period) # {}
    THEN TemplateRows(tt, day_name, period)
    ELSE IF ExactDateRows(tt, date_str, period) # {}
    THEN ExactDateRows(tt, date_str, period)
    ELSE PastOverrideRows(tt, date_str, day_name, period)

\* The rows the three queries of one slot may return, in their order:
\* each later query runs only if the earlier ones returned nothing.
OwnRows(tt, date_str, day_name, period) ==
    IF ExactDateRows(tt, date_str, period) # {}
    THEN ExactDateRows(tt, date_str, period)
    ELSE IF PastOverrideRows(tt, date_str, day_name, period) # {}
    THEN PastOverrideRows(tt, date_str, day_name, period)
    ELSE TemplateRows(tt, day_name, period)

\* Mutant: the weekday of the previous row is not compared.
InheritsDoubleAnyDay(prev_row, day_name) ==
    /\ prev_row # NoRow
    /\ prev_row.is_double

\* if prev_row and prev_row['is_double']: if prev_row['day'] == day_name
InheritsDouble(prev_row, day_name) ==
    /\ prev_row # NoRow
    /\ prev_row.is_double
    /\ prev_row.day = day_name

\* The rows one iteration of the slot loop may store for its period; NoRow
\* when it stores nothing.  prev_row is the entry of the preceding period of
\* the pattern (NoRow for the first period or when that period has no entry).
SlotRows(tt, date_str, day_name, period, prev_row) ==
    IF OwnRows(tt, date_str, day_name, period) # {}
    THEN OwnRows(tt, date_str, day_name, period)
    ELSE IF InheritsDouble(prev_row, day_name)
    THEN {prev_row}
    ELSE {NoRow}

\* The inner loop over SCHEDULE_PATTERN from the i-th period on: the
\* sequences of entries it may produce.
RECURSIVE DayPass(_, _, _, _, _)
DayPass(tt, date_str, day_name, i, prev_row) ==
    IF i > Len(period_list)
    THEN {<<>>}
    ELSE UNION { { <<row>> \o rest :
                     rest \in DayPass(tt, date_str, day_name, i + 1, row) } :
                 row \in SlotRows(tt, date_str, day_name, period_list[i], prev_row) }

\* One day of the home view: prev_period = None at the start of each day.
DayResults(tt, date_str) ==
    DayPass(tt, date_str, DayNameOf(date_str), 1, NoRow)

\* The outer loop over the five dates of the week, from day_idx on.
RECURSIVE WeekPass(_, _, _)
WeekPass(tt, week_offset, day_idx) ==
    IF day_idx >= Len(day_labels)
    THEN {<<>>}
    ELSE { <<day>> \o rest :
             day \in DayResults(tt, date_strs(week_offset)[day_idx + 1]),
             rest \in WeekPass(tt, week_offset, day_idx + 1) }

PeriodIndex(period) == CHOOSE i \in 1..Len(period_list) : period_list[i] = period

\* schedule_entries keyed by (day_idx, period); NoRow where the dict has no key.
EntriesOf(week) ==
    [k \in DayIdxs \X PeriodSet |-> week[k[1] + 1][PeriodIndex(k[2])]]

handle_home(week_offset) ==
    /\ \E week \in WeekPass(timetable, week_offset, 0) :
          schedule_entries' = EntriesOf(week)
    /\ request' = [handler |-> "home", week |-> week_offset]
    /\ response' = <<200>>
    /\ UNCHANGED timetable
    /\ UNCHANGED <<store_vars, change_log, updated_data>>

\* ------------------------------------------------ lesson status lifecycle
\* Mutant: col = ? for every value, which no NULL satisfies.
SqlEqNeverNull(col, value) ==
    col # NULL /\ value # NULL /\ col = value

\* col = ? when the template's value is not None, col IS NULL otherwise.
NullAwareEq(col, value) ==
    IF value # NULL THEN col # NULL /\ col = value ELSE col = NULL

\* Mutant: a row whose course_id is NULL is never found.
ExistingOverridesCourseNotNull(tt, date, template_entry) ==
    {r \in tt : /\ r.date # NULL /\ r.date = date
                /\ r.period = template_entry.period
                /\ NullAwareEq(r.subject_id, template_entry.subject_id)
                /\ NullAwareEq(r.class_id, template_entry.class_id)
                /\ r.course_id # NULL
                /\ NullAwareEq(r.course_id, template_entry.course_id)}

\* SELECT id FROM timetable WHERE date = ? AND period = ? AND <subject_id,
\* class_id, course_id NULL-aware>
ExistingOverrides(tt, date, template_entry) ==
    {r \in tt : /\ r.date # NULL /\ r.date = date
                /\ r.period = template_entry.period
                /\ NullAwareEq(r.subject_id, template_entry.subject_id)
                /\ NullAwareEq(r.class_id, template_entry.class_id)
                /\ NullAwareEq(r.course_id, template_entry.course_id)}

\* Mutant: the found override keeps the status it had.
UpdateStatusKept(tt, id, status) == tt

\* UPDATE timetable SET status=? WHERE id=?
UpdateStatus(tt, id, status) ==
    {IF r.id = id THEN [r EXCEPT !.status = status] ELSE r : r \in tt}

\* Mutant: is_double is left to its column default 0.
InsertedOverrideNotDouble(tt, template_entry, date, status) ==
    [id |-> NewId(tt),
     class_id |-> template_entry.class_id, course_id |-> template_entry.course_id,
     period |-> template_entry.period, is_double |-> FALSE,
     slot |-> template_entry.slot, day |-> template_entry.day,
     time_range |-> template_entry.time_range, date |-> date,
     subject_id |-> template_entry.subject_id, room |-> template_entry.room,
     status |-> status]

\* INSERT INTO timetable (...) VALUES (<template's fields>, date, status)
InsertedOverride(tt, template_entry, date, status) ==
    [id |-> NewId(tt),
     class_id |-> template_entry.class_id, course_id |-> template_entry.course_id,
     period |-> template_entry.period, is_double |-> template_entry.is_double,
     slot |-> template_entry.slot, day |-> template_entry.day,
     time_range |-> template_entry.time_range, date |-> date,
     subject_id |-> template_entry.subject_id, room |-> template_entry.room,
     status |-> status]

\* Mutant: the delete takes every row dated like the row of the id.
UncancelDeleteWholeDate(tt, timetable_id) ==
    {r \in tt : ~(r.date # NULL /\ \E q \in tt : q.id = timetable_id /\ q.date = r.date)}

\* Mutant: the delete without its date filter.
UncancelDeleteAnyRow(tt, timetable_id) ==
    {r \in tt : r.id # timetable_id}

\* DELETE FROM timetable WHERE id = ? AND date IS NOT NULL
UncancelDelete(tt, timetable_id) ==
    {r \in tt : ~(r.id = timetable_id /\ r.date # NULL)}

\* Form fields of /lesson/update_status and /lesson/uncancel; Missing is an
\* absent or empty field.  The forms served are the complete ones and those
\* with exactly one field missing.
FormIds == 1..MaxId
CompleteForms ==
    [date : InputDates, period : {period_list[1]}, timetable_id : FormIds,
     status : Statuses]
SomeForm == [date |-> 1, period |-> period_list[1], timetable_id |-> 1,
             status |-> "cancelled"]
UpdateStatusForms ==
    CompleteForms \cup
    { [SomeForm EXCEPT !.date = Missing], [SomeForm EXCEPT !.period = Missing],
      [SomeForm EXCEPT !.timetable_id = Missing], [SomeForm EXCEPT !.status = ""] }
UncancelForms == FormIds \cup {Missing}

\* History only: whether the request served just before was an accepted
\* status change for the same source row and date.
RepeatsLast(date, timetable_id) ==
    /\ request.handler = "update_status"
    /\ response = <<303>>
    /\ request.timetable_id = timetable_id
    /\ request.date = date

\* History only: the store before a status change that inserts a row (the
\* request is complete, its source row exists and no override matches),
\* no rows for any other request.
BeforeInsert(date, period, timetable_id, status) ==
    IF /\ date # Missing /\ period # Missing /\ timetable_id # Missing /\ status # ""
       /\ \E r \in timetable :
             r.id = timetable_id /\ ExistingOverrides(timetable, date, r) = {}
    THEN timetable
    ELSE {}

\* History only: whether the request served just before was a status change
\* that inserted the row of this id.
UndoesLast(timetable_id) ==
    /\ request.handler = "update_status"
    /\ response = <<303>>
    /\ request.before # {}
    /\ timetable_id \in Ids(timetable) \ Ids(request.before)

post_lesson_update_status(date, period, timetable_id, status) ==
    /\ request' = [handler |-> "update_status", date |-> date, period |-> period,
                   timetable_id |-> timetable_id, status |-> status,
                   again |-> RepeatsLast(date, timetable_id),
                   before |-> BeforeInsert(date, period, timetable_id, status)]
    /\ schedule_entries' = NoView
    \* neither branch calls _log_change
    /\ UNCHANGED <<store_vars, change_log, updated_data>>
    /\ IF date = Missing \/ period = Missing \/ timetable_id = Missing \/ status = ""
       THEN /\ response' = <<400>>
            /\ UNCHANGED timetable
       ELSE IF \A r \in timetable : r.id # timetable_id
       THEN \* 404 is written, then leaving "with conn" commits on the closed
            \* connection, which raises; do_POST answers that with a 500.
            /\ response' = <<404, 500>>
            /\ UNCHANGED timetable
       ELSE LET template_entry == CHOOSE r \in timetable : r.id = timetable_id
                existing == ExistingOverrides(timetable, date, template_entry)
            IN  /\ response' = <<303>>
                /\ IF existing # {}
                   THEN \E existing_override \in existing :
                          timetable' = UpdateStatus(timetable, existing_override.id, status)
                   ELSE /\ NewId(timetable) <= MaxId
                        /\ timetable' = timetable \cup
                              {InsertedOverride(timetable, template_entry, date, status)}

post_lesson_uncancel(timetable_id) ==
    /\ request' = [handler |-> "uncancel", timetable_id |-> timetable_id,
                   undoes |-> UndoesLast(timetable_id)]
    /\ schedule_entries' = NoView
    \* neither branch calls _log_change
    /\ UNCHANGED <<store_vars, change_log, updated_data>>
    /\ IF timetable_id = Missing
       THEN /\ response' = <<400>>
            /\ UNCHANGED timetable
       ELSE /\ timetable' = UncancelDelete(timetable, timetable_id)
            /\ response' = <<303>>

Next ==
    \/ \E week_offset \in WeekOffsets : handle_home(week_offset)
    \/ \E data \in UpdateStatusForms :
          post_lesson_update_status(data.date, data.period, data.timetable_id, data.status)
    \/ \E timetable_id \in UncancelForms : post_lesson_uncancel(timetable_id)

Spec == Init /\ [][Next]_vars

\* ------------------------------------------------------------ properties
Templates(tt) == {r \in tt : r.date = NULL}
Overrides(tt) == {r \in tt : r.date # NULL}

HomeShown == request.handler = "home"
ViewDate(day_idx) == date_strs(request.week)[day_idx + 1]
Entry(day_idx, period) == schedule_entries[<<day_idx, period>>]

\* C1: every template row (date = NULL) that the store held before a
\* sequence of status changes and reverts is still in the store, with every
\* field as it was.
C1_TemplatesNeverMutated ==
    \A r \in populate_default_timetable : r \in timetable

\* A revert was just asked for a template row's id while overrides exist.
C1_Witness ==
    /\ request.handler = "uncancel"
    /\ response = <<303>>
    /\ \E r \in Templates(timetable) : r.id = request.timetable_id
    /\ Overrides(timetable) # {}

\* C2: whenever the store holds a row with date D and period P, the home
\* view's entry for (D, P) is a row with date D.
C2_ExactDatePreferred ==
    HomeShown =>
      \A day_idx \in DayIdxs, period \in PeriodSet :
        (\E r \in timetable : r.date = ViewDate(day_idx) /\ r.period = period)
          => /\ Entry(day_idx, period) # NoRow
             /\ Entry(day_idx, period).date = ViewDate(day_idx)

\* An exact-date row was shown although a template and an earlier override
\* of the same weekday and period exist.
C2_Witness ==
    /\ HomeShown
    /\ \E day_idx \in DayIdxs, period \in PeriodSet :
         /\ Entry(day_idx, period) # NoRow
         /\ Entry(day_idx, period).date = ViewDate(day_idx)
         /\ \E t \in Templates(timetable) :
              t.day = day_labels[day_idx + 1] /\ t.period = period
         /\ \E o \in Overrides(timetable) :
              /\ o.date < ViewDate(day_idx)
              /\ o.day = day_labels[day_idx + 1] /\ o.period = period

\* The dated rows earlier than the date of day_idx, of its weekday and of
\* the given period.
EarlierOverrides(day_idx, period) ==
    {r \in timetable : /\ r.date # NULL /\ r.date < ViewDate(day_idx)
                       /\ r.day = day_labels[day_idx + 1] /\ r.period = period}

\* C3: when no row has date D1 and period P and some dated row is earlier
\* than D1 with D1's weekday and period P, the entry for (D1, P) is one of
\* those rows, and none of them has a later date.
C3_LatestPastOverride ==
    HomeShown =>
      \A day_idx \in DayIdxs, period \in PeriodSet :
        ( /\ ~ \E r \in timetable : r.date = ViewDate(day_idx) /\ r.period = period
          /\ EarlierOverrides(day_idx, period) # {} )
          => /\ Entry(day_idx, period) \in EarlierOverrides(day_idx, period)
             /\ \A q \in EarlierOverrides(day_idx, period) :
                  q.date <= Entry(day_idx, period).date

\* Two earlier overrides of different dates and a template compete, no row
\* has the date itself, and the later override is shown.
C3_Witness ==
    /\ HomeShown
    /\ \E day_idx \in DayIdxs, period \in PeriodSet :
         /\ ~ \E r \in timetable : r.date = ViewDate(day_idx) /\ r.period = period
         /\ \E q1, q2 \in EarlierOverrides(day_idx, period) : q1.date < q2.date
         /\ \E t \in Templates(timetable) :
              t.day = day_labels[day_idx + 1] /\ t.period = period
         /\ Entry(day_idx, period) \in EarlierOverrides(day_idx, period)

\* The entries of one day of the view, in the order of the pattern.
DayEntries(day_idx) ==
    [i \in 1..Len(period_list) |-> Entry(day_idx, period_list[i])]

\* C4 as stated: an override row pinned to date D changes the resolution of
\* no other date: every other day of the view is resolved as it would be
\* with that row absent from the store.
C4_OverrideAffectsOnlyItsDate ==
    HomeShown =>
      \A o \in Overrides(timetable), day_idx \in DayIdxs :
        ViewDate(day_idx) # o.date =>
          /\ DayResults(timetable, ViewDate(day_idx))
               = DayResults(timetable \ {o}, ViewDate(day_idx))
          /\ DayEntries(day_idx) \in DayResults(timetable \ {o}, ViewDate(day_idx))

\* C4 amended: an override row pinned to date D with weekday field W changes
\* the resolution of no date earlier than D and of no date whose weekday is
\* not W (later dates of weekday W may inherit it by the past-override rule).
C4_OverrideAffectsNoEarlierOrOtherWeekday ==
    HomeShown =>
      \A o \in Overrides(timetable), day_idx \in DayIdxs :
        ( /\ ViewDate(day_idx) # o.date
          /\ \/ ViewDate(day_idx) < o.date
             \/ day_labels[day_idx + 1] # o.day )
        => /\ DayResults(timetable, ViewDate(day_idx))
                = DayResults(timetable \ {o}, ViewDate(day_idx))
           /\ DayEntries(day_idx) \in DayResults(timetable \ {o}, ViewDate(day_idx))

\* A day earlier than an override of its weekday is shown with a lesson in
\* the override's period, and a day after it of another weekday is shown too.
C4_Witness ==
    /\ HomeShown
    /\ \E o \in Overrides(timetable), day_idx \in DayIdxs :
         /\ ViewDate(day_idx) < o.date
         /\ day_labels[day_idx + 1] = o.day
         /\ Entry(day_idx, o.period) # NoRow
    /\ \E o \in Overrides(timetable), day_idx \in DayIdxs :
         /\ ViewDate(day_idx) > o.date
         /\ day_labels[day_idx + 1] # o.day

\* The period that follows a period in the schedule pattern, if any.
FollowingPeriod(period) ==
    {period_list[i] : i \in {j \in 2..Len(period_list) : period_list[j - 1] = period}}

\* C5: in one day of the view a row is the entry of no period other than
\* the one it is stored at and the one that follows it in the pattern.
C5_DoubleOccupiesAtMostTwoPeriods ==
    HomeShown =>
      \A day_idx \in DayIdxs, r \in timetable :
        {p \in PeriodSet : Entry(day_idx, p) = r}
          \subseteq ({r.period} \cup FollowingPeriod(r.period))

\* The rows stored for a slot itself: exact-date, earlier dated rows of the
\* weekday and template rows of the weekday.
SlotCandidates(date_str, day_name, period) ==
    {r \in timetable :
       /\ r.period = period
       /\ \/ r.date = date_str
          \/ r.date # NULL /\ r.date < date_str /\ r.day = day_name
          \/ r.date = NULL /\ r.day = day_name}

ConsecutiveSlots == DayIdxs \X (1..(Len(period_list) - 1))

SameSlot(k) ==
    /\ Entry(k[1], period_list[k[2]]) # NoRow
    /\ Entry(k[1], period_list[k[2] + 1]) = Entry(k[1], period_list[k[2]])

FirstIsDoubleOfDay(k) ==
    /\ Entry(k[1], period_list[k[2]]) # NoRow
    /\ Entry(k[1], period_list[k[2]]).is_double
    /\ Entry(k[1], period_list[k[2]]).day = day_labels[k[1] + 1]

SecondHasOwnRows(k) ==
    SlotCandidates(ViewDate(k[1]), day_labels[k[1] + 1], period_list[k[2] + 1]) # {}

SecondIndependent(k) ==
    IF SecondHasOwnRows(k)
    THEN Entry(k[1], period_list[k[2] + 1])
           \in SlotCandidates(ViewDate(k[1]), day_labels[k[1] + 1], period_list[k[2] + 1])
    ELSE Entry(k[1], period_list[k[2] + 1]) = NoRow

\* C6 as stated: period P+1 has the slot of period P exactly when P's row is
\* a double period of the day's weekday; otherwise P+1 is resolved from its
\* own rows.
C6_InheritsIffPreviousDouble ==
    HomeShown =>
      \A k \in ConsecutiveSlots :
        /\ SameSlot(k) <=> FirstIsDoubleOfDay(k)
        /\ ~FirstIsDoubleOfDay(k) => SecondIndependent(k)

\* C6 amended: period P+1 has the slot of period P exactly when P+1 has no
\* exact-date, past-override or template row of its own and P's row is a
\* double period of the day's weekday; in every other case P+1 is resolved
\* from its own rows.
C6_InheritsIffNoOwnRowAndPreviousDouble ==
    HomeShown =>
      \A k \in ConsecutiveSlots :
        /\ SameSlot(k) <=> (FirstIsDoubleOfDay(k) /\ ~SecondHasOwnRows(k))
        /\ ~(FirstIsDoubleOfDay(k) /\ ~SecondHasOwnRows(k)) => SecondIndependent(k)

\* One pair of periods inherits, another has a double before it and rows of
\* its own, and a third follows a double row of another weekday.
C6_Witness ==
    /\ HomeShown
    /\ \E k \in ConsecutiveSlots : SameSlot(k)
    /\ \E k \in ConsecutiveSlots :
         FirstIsDoubleOfDay(k) /\ SecondHasOwnRows(k) /\ ~SameSlot(k)
    /\ \E k \in ConsecutiveSlots :
         /\ Entry(k[1], period_list[k[2]]) # NoRow
         /\ Entry(k[1], period_list[k[2]]).is_double
         /\ Entry(k[1], period_list[k[2]]).day # day_labels[k[1] + 1]

\* The rows of a store that agree with source row r on (date, period,
\* subjectRef, classRef, courseRef) for the given date, two NULLs agreeing.
KeyMatches(tt, date, r) ==
    {q \in tt : /\ q.date = date /\ q.period = r.period
                /\ q.subject_id = r.subject_id
                /\ q.class_id = r.class_id /\ q.course_id = r.course_id}

\* The source row of a status change.
SourceRow(tt, timetable_id) == CHOOSE r \in tt : r.id = timetable_id

\* The handler of this step accepted a status change.
StatusChangeAccepted == request'.handler = "update_status" /\ response' = <<303>>

\* C7: an accepted status change leaves exactly one row for the source
\* row's key at the date, with the requested status; when it repeats the
\* call before it (same source row and date) it changes that row's status
\* in place: no row is added or removed and every other row is as before.
C7_RepeatedStatusChangeKeepsOneOverride ==
    [][ StatusChangeAccepted =>
          LET r == SourceRow(timetable, request'.timetable_id)
              after == KeyMatches(timetable', request'.date, r)
              before == KeyMatches(timetable, request'.date, r)
          IN  /\ Cardinality(after) = 1
              /\ \A q \in after : q.status = request'.status
              /\ request'.again =>
                   /\ Cardinality(timetable') = Cardinality(timetable)
                   /\ Ids(timetable') = Ids(timetable)
                   /\ Cardinality(before) = 1
                   /\ timetable' \ after = timetable \ before
                   /\ \A q \in before :
                        [q EXCEPT !.status = request'.status] \in after
      ]_vars

\* The last two requests were accepted status changes of one template row
\* for one date, and its override carries the status asked for last.
C7_Witness ==
    /\ request.handler = "update_status"
    /\ response = <<303>>
    /\ request.again
    /\ \E t \in Templates(timetable) :
         /\ t.id = request.timetable_id
         /\ \E o \in KeyMatches(timetable, request.date, t) : o.status = request.status

\* C8: a revert asked for the id of a template row ends in an error
\* response, not in the redirect a successful revert ends in.
C8_RevertOfTemplateIsRejected ==
    ( /\ request.handler = "uncancel"
      /\ \E t \in Templates(timetable) : t.id = request.timetable_id )
    => /\ response # <<303>>
       /\ response[1] >= 400

\* C9: an accepted status change for source row R and date D, when no row
\* matches R's key at D, adds exactly one row: a copy of R in weekday,
\* period, isDoublePeriod, subjectRef, classRef, courseRef and room with
\* date D and the requested status; every row held before is unchanged.
C9_InsertCopiesSourceRow ==
    [][ ( /\ StatusChangeAccepted
          /\ KeyMatches(timetable, request'.date,
                        SourceRow(timetable, request'.timetable_id)) = {} )
        => LET r == SourceRow(timetable, request'.timetable_id)
           IN  \E n \in timetable' :
                 /\ n \notin timetable
                 /\ n.id \notin Ids(timetable)
                 /\ timetable' = timetable \cup {n}
                 /\ n.day = r.day /\ n.period = r.period
                 /\ n.is_double = r.is_double
                 /\ n.subject_id = r.subject_id
                 /\ n.class_id = r.class_id /\ n.course_id = r.course_id
                 /\ n.room = r.room
                 /\ n.date = request'.date
                 /\ n.status = request'.status
      ]_vars

\* The first status change of a store of templates was accepted: the store
\* holds the templates and the one override made for the request.
C9_Witness ==
    /\ request.handler = "update_status"
    /\ response = <<303>>
    /\ ~request.again
    /\ Cardinality(timetable) = Cardinality(populate_default_timetable) + 1
    /\ \E t \in Templates(timetable), n \in Overrides(timetable) :
         /\ t.id = request.timetable_id
         /\ n \in KeyMatches(timetable, request.date, t)
         /\ n.status = request.status
         /\ n.is_double /\ n.room = t.room /\ n.day = t.day

\* C10: on a date whose weekday no row of the store has, every period of
\* the view is empty.
C10_NoRowOfWeekdayMeansIdle ==
    HomeShown =>
      \A day_idx \in DayIdxs :
        (\A r \in timetable : r.day # day_labels[day_idx + 1])
          => \A period \in PeriodSet : Entry(day_idx, period) = NoRow

\* ================================================== assessment scoring
RECURSIVE Sum(_, _)
\* Python sum() of one column over fetched rows.
Sum(rows, col) ==
    IF rows = {} THEN 0
    ELSE LET r == CHOOSE x \in rows : TRUE IN r[col] + Sum(rows \ {r}, col)

\* Mutant: the count of parts is not looked at.
ValidLineAnyLength(parts) ==
    /\ Len(parts) >= 3
    /\ float(parts[2]) # <<"ValueError">>
    /\ float(parts[3]) # <<"ValueError">>

\* A line gives a band when it has three parts and float() takes the last two.
ValidLine(parts) ==
    /\ Len(parts) = 3
    /\ float(parts[2]) # <<"ValueError">>
    /\ float(parts[3]) # <<"ValueError">>

RECURSIVE scale_def(_)
\* The (label, min, max) list built from a definition, in line order.
scale_def(lines) ==
    IF lines = <<>> THEN <<>>
    ELSE LET parts == Head(lines)
         IN  (IF ValidLine(parts)
              THEN << [g |-> parts[1], mi |-> float(parts[2]), ma |-> float(parts[3])] >>
              ELSE <<>>) \o scale_def(Tail(lines))

\* Mutant: the upper bound taken as inclusive.
InBandClosed(pct, band) ==
    /\ IsReal(band.mi) /\ IsReal(band.ma)
    /\ pct >= band.mi[2] /\ pct <= band.ma[2]

\* pct >= mi and pct < ma; a comparison with NaN is false.
InBand(pct, band) ==
    /\ IsReal(band.mi) /\ IsReal(band.ma)
    /\ pct >= band.mi[2] /\ pct < band.ma[2]

RECURSIVE GradeOf(_, _)
\* The scan over scale_def: the first band holding pct, '' when none does.
GradeOf(pct, bands) ==
    IF bands = <<>> THEN ""
    ELSE IF InBand(pct, Head(bands)) THEN Head(bands).g
    ELSE GradeOf(pct, Tail(bands))

\* Mutant: a tie goes up.
round_half_up(x) == (2 * x + Unit) \div (2 * Unit)

\* Python round() of x >= 0 (in Units): the nearest integer, a tie to the
\* even one.
round(x) ==
    LET q == x \div Unit
        r == x % Unit
    IN  IF 2 * r < Unit THEN q
        ELSE IF 2 * r > Unit THEN q + 1
        ELSE IF q % 2 = 0 THEN q ELSE q + 1

\* round(tot * 2.0) / 2.0
tot_rounded(tot) == (round(tot * 2) * Unit) \div 2

\* tot_rounded / total_max * 100.0.  The task maxima used below are powers
\* of two, for which the float division and this quotient are both exact.
pct(total, total_max) == (total * 100 * Unit) \div total_max

NoResult == [kind |-> "none"]
Raised(exc) == [kind |-> "error", exc |-> exc]
Result(total_points, percentage, grade) ==
    [kind |-> "result", total_points |-> total_points,
     percentage |-> percentage, grade |-> grade]

\* Mutant: an override of 0 counts as absent (truthiness instead of
\* "is not None").
final_grade_truthy(override, grade) ==
    IF override # None /\ override # Real(0) THEN override ELSE Text(grade)

\* final_grade = override if override is not None else grade
final_grade(override, grade) ==
    IF override # None THEN override ELSE Text(grade)

\* _calculate_student_performance_grade once fetchone() has given results
\* (NoRow when the student has no performance_results row).
calculate_with(c, performance_id, student_id, results) ==
    LET performance == {p \in c.performance_queries : p.id = performance_id}
        grade_scale_id == (CHOOSE p \in performance : TRUE).grade_scale_id
        tasks == {t \in c.performance_tasks : t.performance_id = performance_id}
        total_max == Sum(tasks, "max_points")
        scale_row == {s \in c.grade_scales : s.id = grade_scale_id}
        bands == scale_def((CHOOSE s \in scale_row : TRUE).definition)
        task_results == {r \in c.performance_task_results :
                           r.performance_id = performance_id /\ r.student_id = student_id}
        op == IF results # NoRow THEN results.op_points ELSE Real(0)
        zp == IF results # NoRow THEN results.zp_points ELSE Real(0)
        override == IF results # NoRow THEN results.grade_override ELSE None
        task_sum == Sum(task_results, "points")
        tot == task_sum + op[2] + zp[2]
        total == tot_rounded(tot)
        percentage == pct(total, total_max)
    IN  IF performance = {} THEN NoResult
        ELSE IF grade_scale_id = NULL THEN NoResult
        ELSE IF total_max = 0 THEN NoResult
        ELSE IF scale_row = {} THEN NoResult
        ELSE IF bands = <<>> THEN NoResult
        ELSE IF ~IsReal(op) \/ ~IsReal(zp) THEN Raised("TypeError")
        ELSE Result(total, percentage, final_grade(override, GradeOf(percentage, bands)))

\* Mutant: the student's performance_results row is not read.
calculate_without_row(c, performance_id, student_id) ==
    { calculate_with(c, performance_id, student_id, NoRow) }

\* The outcomes of one call: fetchone() may give any of the student's rows.
calculate_student_performance_grade(c, performance_id, student_id) ==
    LET rows == {r \in c.performance_results :
                   r.performance_id = performance_id /\ r.student_id = student_id}
    IN  { calculate_with(c, performance_id, student_id, results) :
            results \in (IF rows = {} THEN {NoRow} ELSE rows) }

\* ---------------------------------------------- scoring over drawn stores
\* Scales beside the default one, as /grade_scale/create stores them: one
\* with overlapping bands, a gap and two lines that give no band, and one
\* with no valid line at all.
custom_def ==
    << <<"A", "75", "100">>, <<"B", "50", "100">>, <<"x", "abc", "50">>,
       <<"D", "0", "50", "75">>, <<"C", "0", "25">>, <<"">> >>
junk_def == << <<"A", "x", "50">>, <<"B", "50">> >>

ScoreScales ==
    default_grade_scales \cup
    { [id |-> 2, definition |-> custom_def], [id |-> 3, definition |-> junk_def] }

\* Assessment 1 absent, or present with no scale, with scale 1, 2 or 3, or
\* with a scale id no row has.
ScoreQueries == {{}} \cup { {PerfRow(1, g)} : g \in {NULL, 1, 2, 3, 4} }

\* No task, one task of 0 points, one of 2 points, two of 2 points.
ScoreTasks ==
    { {}, {TaskRow(1, 1, 1, 0)}, {TaskRow(1, 1, 1, 2 * Unit)},
      {TaskRow(1, 1, 1, 2 * Unit), TaskRow(2, 1, 2, 2 * Unit)} }

\* Student 1 without a row, or with one: op_points 0, 0.25 or NULL (an
\* imported "nan"), zp_points 0 or 0.5, grade_override NULL, 0 or 2.0.
ScoreResults ==
    {{}} \cup
    { {[ResultRow(1, 1, 1, op, zp) EXCEPT !.grade_override = o]} :
        op \in {Real(0), Real(5), None}, zp \in {Real(0), Real(10)},
        o \in {None, Real(0), Real(2 * Unit)} }

\* Student 1 without task points, or with 0.5, 1.5, 2 or 2.5 for task 1.
ScoreTaskResults ==
    {{}} \cup { {TaskResultRow(1, 1, 1, 1, p, 0)} : p \in {10, 30, 40, 50} }

ScorePerfIds == {1}
ScoreStudents == {1, 2}

\* The change_log rows of the shortest history that leaves such a store:
\* two scales created, then create, delete, scale assignment, import and
\* override as far as the tables show them.
LogRowsOf(queries, tasks, results, task_results) ==
    2 + (IF queries # {} \/ tasks # {} THEN 1 ELSE 0)
      + (IF queries = {} /\ tasks # {} THEN 1 ELSE 0)
      + (IF \E p \in queries : p.grade_scale_id # NULL THEN 1 ELSE 0)
      + (IF results # {} \/ task_results # {} THEN 1 ELSE 0)
      + (IF \E r \in results : r.grade_override # None THEN 1 ELSE 0)

InitScore ==
    /\ timetable = populate_default_timetable
    /\ schedule_entries = NoView
    /\ request = [handler |-> "none"]
    /\ response = <<>>
    /\ performance_queries \in ScoreQueries
    /\ performance_tasks \in ScoreTasks
    /\ performance_results \in ScoreResults
    /\ performance_task_results \in ScoreTaskResults
    /\ grade_scales = ScoreScales
    /\ change_log = LogRowsOf(performance_queries, performance_tasks,
                              performance_results, performance_task_results)
    /\ updated_data = NoData

\* One call of _calculate_student_performance_grade on the store.
call_calculate(performance_id, student_id) ==
    /\ updated_data' \in
          calculate_student_performance_grade(cur, performance_id, student_id)
    /\ request' = [handler |-> "calculate", performance_id |-> performance_id,
                   student_id |-> student_id]
    /\ UNCHANGED <<timetable_vars, response, store_vars, change_log>>

NextScore ==
    \E performance_id \in ScorePerfIds, student_id \in ScoreStudents :
        call_calculate(performance_id, student_id)

SpecScore == InitScore /\ [][NextScore]_vars

\* ------------------------------------------------- properties of scoring
Calculated == request.handler = "calculate"
Returned == Calculated /\ updated_data.kind = "result"

\* The rows the call was about.
AskedPerformance == {p \in performance_queries : p.id = request.performance_id}
AskedScale ==
    {s \in grade_scales : \E p \in AskedPerformance : s.id = p.grade_scale_id}
AskedBands == scale_def((CHOOSE s \in AskedScale : TRUE).definition)
AskedResults ==
    {r \in performance_results : /\ r.performance_id = request.performance_id
                                 /\ r.student_id = request.student_id}
AskedOverrides == {r.grade_override : r \in AskedResults} \ {None}

\* Positions of the bands with min <= p < max.
Holding(p, bands) ==
    {i \in 1..Len(bands) : bands[i].mi[2] <= p /\ p < bands[i].ma[2]}

SetMin(S) == CHOOSE x \in S : \A y \in S : x <= y

\* C11: a result computed without an override carries the label of the
\* first band, in stored order, with min <= percentage < max (a percentage
\* equal to a band's max is not in that band), and the empty grade, with
\* total and percentage, when no band holds the percentage.
C11_FirstHalfOpenBandWins ==
    (Returned /\ AskedOverrides = {}) =>
        LET holding == Holding(updated_data.percentage, AskedBands)
        IN  IF holding = {}
            THEN updated_data.grade = Text("")
            ELSE updated_data.grade = Text(AskedBands[SetMin(holding)].g)

\* A percentage equal to the max of a band that starts below it, for which
\* no band is found: the result is returned with an empty grade.
C11_Witness ==
    /\ Returned /\ AskedOverrides = {}
    /\ \E i \in 1..Len(AskedBands) :
          /\ AskedBands[i].ma[2] = updated_data.percentage
          /\ AskedBands[i].mi[2] < updated_data.percentage
    /\ updated_data.grade = Text("")

\* C12: a returned result carries the override of the student's row when it
\* is not NULL (0 included), whether or not a band holds the percentage, and
\* the label of a band holding the percentage (or the empty grade) when the
\* override is NULL or the student has no row.
C12_OverrideReplacesComputedGrade ==
    Returned =>
        LET holding == Holding(updated_data.percentage, AskedBands)
            labels == IF holding = {} THEN {Text("")}
                      ELSE {Text(AskedBands[i].g) : i \in holding}
        IN  \/ AskedResults = {} /\ updated_data.grade \in labels
            \/ \E r \in AskedResults :
                  IF r.grade_override # None
                  THEN updated_data.grade = r.grade_override
                  ELSE updated_data.grade \in labels

\* An override of 0 returned for a percentage no band holds.
C12_Witness ==
    /\ Returned
    /\ AskedOverrides = {Real(0)}
    /\ Holding(updated_data.percentage, AskedBands) = {}
    /\ updated_data.grade = Real(0)

\* The cases in which the claim lets the computation give nothing.
NoneCase ==
    \/ AskedPerformance = {}
    \/ \A p \in AskedPerformance : p.grade_scale_id = NULL
    \/ AskedScale = {}
    \/ AskedBands = <<>>
    \/ Sum({t \in performance_tasks : t.performance_id = request.performance_id},
           "max_points") = 0

\* C13: the computation gives nothing exactly when the assessment is
\* unknown, has no scale, its scale is missing or has no valid band, or its
\* task maxima sum to 0; in every other case it gives a result.
C13_NoneExactlyWhenUnscorable ==
    Calculated =>
        IF NoneCase THEN updated_data = NoResult
        ELSE updated_data.kind = "result"

\* The student the call was about has no row in either result table.
AskedStudentHasNoRows ==
    /\ AskedResults = {}
    /\ \A r \in performance_task_results :
          ~(r.performance_id = request.performance_id /\ r.student_id = request.student_id)

\* C14: for an unknown assessment, or a student without result rows, the
\* computation gives nothing or a result without grade, and raises nothing.
C14_UnknownGivesNoGrade ==
    (Calculated /\ (AskedPerformance = {} \/ AskedStudentHasNoRows)) =>
        \/ updated_data = NoResult
        \/ updated_data.kind = "result" /\ updated_data.grade = Text("")

\* ================================================ assessment handlers
\* Python int(str) for the id texts in use; ValueError for any other text.
integers == ("0" :> 0) @@ ("1" :> 1) @@ ("2" :> 2)
int(s) == IF s \in DOMAIN integers THEN <<"int", integers[s]>> ELSE <<"ValueError">>

\* The header cells h with h.startswith('Aufgabe').
task_numbers(header) ==
    {i \in 1..Len(header) : header[i] \in {"Aufgabe1", "Aufgabe2"}}

\* float(s) if s else 0.0, and 0.0 on ValueError
cell_float(s) ==
    IF s = "" \/ float(s) = <<"ValueError">> THEN Real(0) ELSE float(s)

Min(a, b) == IF a < b THEN a ELSE b

\* The fields of one data line: parts[3:3+task_count], then OP and ZP when
\* the line is long enough.
line_values(parts, task_count) ==
    SubSeq(parts, 4, Min(Len(parts), 3 + task_count))
line_op(parts, task_count) ==
    IF Len(parts) >= 3 + task_count + 1 THEN cell_float(parts[3 + task_count + 1])
    ELSE Real(0)
line_zp(parts, task_count) ==
    IF Len(parts) >= 3 + task_count + 2 THEN cell_float(parts[3 + task_count + 2])
    ELSE Real(0)

\* A line the loop does not skip: three parts or more and an integer id.
line_taken(parts) == Len(parts) >= 3 /\ int(parts[1]) # <<"ValueError">>

\* Mutant: the first transaction of the import left out.
delete_results_none(c, perf_id) == c

\* DELETE FROM performance_task_results / performance_results
\* WHERE performance_id=?
delete_results(c, perf_id) ==
    [c EXCEPT
       !.performance_task_results = {r \in @ : r.performance_id # perf_id},
       !.performance_results = {r \in @ : r.performance_id # perf_id}]

\* The transaction of one data line: the performance_results row, then one
\* performance_task_results row per value.  points is NOT NULL, so a NaN
\* (bound as NULL) raises IntegrityError and the line is rolled back.
insert_line(c, perf_id, parts, task_count) ==
    LET student_id == int(parts[1])[2]
        values == line_values(parts, task_count)
        pts == [i \in 1..Len(values) |-> Bind(cell_float(values[i]))]
        first_id == NewId(c.performance_task_results)
        result_row ==
            ResultRow(NewId(c.performance_results), perf_id, student_id,
                      Bind(line_op(parts, task_count)), Bind(line_zp(parts, task_count)))
        task_rows ==
            { TaskResultRow(first_id + i - 1, perf_id, student_id, i, pts[i][2], 0) :
                i \in 1..Len(values) }
    IN  IF \E i \in 1..Len(values) : pts[i] = None
        THEN [raised |-> TRUE, cur |-> c]
        ELSE [raised |-> FALSE,
              cur |-> [c EXCEPT !.performance_results = @ \cup {result_row},
                                !.performance_task_results = @ \cup task_rows]]

RECURSIVE import_lines(_, _, _, _)
\* The loop over lines[1:], each taken line committed on its own; the first
\* raising line ends it with what was committed so far.
import_lines(c, perf_id, lines, task_count) ==
    IF lines = <<>> THEN [raised |-> FALSE, cur |-> c]
    ELSE IF ~line_taken(Head(lines))
    THEN import_lines(c, perf_id, Tail(lines), task_count)
    ELSE LET done == insert_line(c, perf_id, Head(lines), task_count)
         IN  IF done.raised THEN done
             ELSE import_lines(done.cur, perf_id, Tail(lines), task_count)

\* The uploaded texts, split into lines and cells.
csv_header == <<"StudentID", "Nachname", "Vorname", "Aufgabe1", "OP", "ZP">>
CsvFiles ==
    { <<>>,
      <<csv_header, <<"1", "A", "B", "1.5", "0.25", "0">> >>,
      <<csv_header, <<"1", "A", "B", "0.5", "", "">>, <<"1", "A", "B", "2", "0", "0">> >>,
      <<csv_header, <<"1", "A", "B", "2", "0", "0">>, <<"2", "C", "D", "nan", "0", "0">> >>,
      <<csv_header, <<"x", "A", "B", "1", "0", "0">>, <<"1", "A">>,
                    <<"1", "A", "B", "abc", "nan">> >> }

\* Whether some row of the assessment carried an edit before the request.
HadEdits(perf_id) ==
    \/ \E r \in performance_results :
          /\ r.performance_id = perf_id
          /\ (r.grade_override # None \/ r.comment # None \/
              r.op_is_edited = 1 \/ r.zp_is_edited = 1)
    \/ \E r \in performance_task_results :
          r.performance_id = perf_id /\ r.is_edited = 1

SetStore(c) ==
    /\ performance_queries' = c.performance_queries
    /\ performance_tasks' = c.performance_tasks
    /\ performance_results' = c.performance_results
    /\ performance_task_results' = c.performance_task_results
    /\ grade_scales' = c.grade_scales

post_performance_import(perf_id_raw, csv_data) ==
    /\ request' = [handler |-> "import", perf_id_raw |-> perf_id_raw,
                   csv_data |-> csv_data, had_edits |->
                      (int(perf_id_raw) # <<"ValueError">> /\ HadEdits(int(perf_id_raw)[2]))]
    /\ updated_data' = NoData
    /\ UNCHANGED timetable_vars
    /\ IF int(perf_id_raw) = <<"ValueError">> \/ csv_data = <<>>
       THEN /\ response' = <<400>>
            /\ UNCHANGED <<store_vars, change_log>>
       ELSE LET perf_id == int(perf_id_raw)[2]
                task_count == Cardinality(task_numbers(csv_data[1]))
                done == import_lines(delete_results(cur, perf_id), perf_id,
                                     Tail(csv_data), task_count)
            IN  /\ SetStore(done.cur)
                /\ IF done.raised
                   THEN response' = <<500>> /\ UNCHANGED change_log
                   ELSE /\ change_log < MaxLog
                        /\ change_log' = change_log + 1
                        /\ response' = <<303>>

\* ------------------------------------------- update of a student's scores
\* A JSON object is the sequence of its (key, value) pairs; a JSON number is
\* a Real, a JSON string a Text, JSON null is None.
HasKey(scores, key) == \E i \in 1..Len(scores) : scores[i][1] = key
ValueOf(scores, key) == scores[CHOOSE i \in 1..Len(scores) : scores[i][1] = key][2]

\* What sqlite3 stores in a REAL column for a bound value: a text that
\* reads as a number is converted, any other text stays TEXT.
stored_real(value) ==
    IF value[1] = "text" /\ IsReal(float(value[2])) THEN float(value[2]) ELSE value

\* float(value) on a JSON value; float(None) raises TypeError.
json_float(value) ==
    IF value = None THEN <<"TypeError">>
    ELSE IF value[1] = "text" THEN float(value[2])
    ELSE value

\* key.split('_')[1] of the keys that start with 'task_'.
task_key_part == ("task_1" :> "1") @@ ("task_2" :> "2") @@ ("task_x" :> "x")

\* UPDATE performance_results SET op_points = ?, op_is_edited = 1 WHERE ...
set_op_points(c, performance_id, student_id, value) ==
    [c EXCEPT !.performance_results =
        { IF r.performance_id = performance_id /\ r.student_id = student_id
          THEN [r EXCEPT !.op_points = stored_real(value), !.op_is_edited = 1]
          ELSE r : r \in @ }]

\* UPDATE performance_results SET zp_points = ?, zp_is_edited = 1 WHERE ...
set_zp_points(c, performance_id, student_id, value) ==
    [c EXCEPT !.performance_results =
        { IF r.performance_id = performance_id /\ r.student_id = student_id
          THEN [r EXCEPT !.zp_points = stored_real(value), !.zp_is_edited = 1]
          ELSE r : r \in @ }]

\* The write of one task value: UPDATE of the row fetchone() gave, or an
\* INSERT with is_edited = 1 when there is none.
set_task_points(c, performance_id, student_id, task_number, points) ==
    LET existing == {r \in c.performance_task_results :
                       /\ r.performance_id = performance_id
                       /\ r.student_id = student_id
                       /\ r.task_number = task_number}
    IN  IF existing # {}
        THEN { [c EXCEPT !.performance_task_results =
                  { IF r.id = e.id THEN [r EXCEPT !.points = points, !.is_edited = 1]
                    ELSE r : r \in @ }] : e \in existing }
        ELSE { [c EXCEPT !.performance_task_results = @ \cup
                  { TaskResultRow(NewId(c.performance_task_results), performance_id,
                                  student_id, task_number, points, 1) }] }

RECURSIVE write_tasks(_, _, _, _)
\* The loop over scores.items(): the outcomes after the task keys, each the
\* tables written so far and whether a statement raised.
write_tasks(c, performance_id, student_id, items) ==
    IF items = <<>> THEN { [raised |-> FALSE, cur |-> c] }
    ELSE LET key == Head(items)[1]
             value == Head(items)[2]
             rest == Tail(items)
         IN  IF key \notin DOMAIN task_key_part
             THEN write_tasks(c, performance_id, student_id, rest)
             ELSE IF int(task_key_part[key]) = <<"ValueError">>
             THEN write_tasks(c, performance_id, student_id, rest)
             ELSE IF json_float(value) = <<"ValueError">>
             THEN write_tasks(c, performance_id, student_id, rest)
             ELSE IF ~IsReal(json_float(value))
             THEN \* TypeError of float(None), or NaN refused by NOT NULL
                  { [raised |-> TRUE, cur |-> c] }
             ELSE UNION { write_tasks(c2, performance_id, student_id, rest) :
                            c2 \in set_task_points(c, performance_id, student_id,
                                                   int(task_key_part[key])[2],
                                                   json_float(value)[2]) }

\* The statements of the transaction before the score is computed.
write_scores(c, performance_id, student_id, scores) ==
    LET c1 == IF HasKey(scores, "op_points")
              THEN set_op_points(c, performance_id, student_id, ValueOf(scores, "op_points"))
              ELSE c
        c2 == IF HasKey(scores, "zp_points")
              THEN set_zp_points(c1, performance_id, student_id, ValueOf(scores, "zp_points"))
              ELSE c1
    IN  write_tasks(c2, performance_id, student_id, scores)

\* The JSON bodies posted: scores for op_points, for a task, for both, none,
\* and one whose op_points is a string that is no number.
ScoreBodies ==
    { <<>>,
      << <<"op_points", Real(5)>> >>,
      << <<"task_1", Real(30)>> >>,
      << <<"op_points", Text("abc")>>, <<"task_1", Real(30)>> >>,
      << <<"zp_points", Real(10)>>, <<"task_1", Real(50)>>, <<"task_x", Real(20)>> >> }

HasResultRow(performance_id, student_id) ==
    \E r \in performance_results :
        r.performance_id = performance_id /\ r.student_id = student_id

post_performance_update_student_scores(performance_id, student_id, scores) ==
    /\ request' = [handler |-> "update_student_scores",
                   performance_id |-> performance_id, student_id |-> student_id,
                   scores |-> scores,
                   had_result |-> HasResultRow(performance_id, student_id)]
    \* no call of _log_change
    /\ UNCHANGED <<timetable_vars, change_log>>
    /\ IF performance_id = Missing \/ student_id = Missing \/ scores = <<>>
       THEN /\ response' = <<400>>
            /\ updated_data' = NoData
            /\ UNCHANGED store_vars
       ELSE \E written \in write_scores(cur, performance_id, student_id, scores) :
              IF written.raised
              THEN /\ response' = <<500>>
                   /\ updated_data' = NoData
                   /\ UNCHANGED store_vars
              ELSE \E data \in calculate_student_performance_grade(
                                  written.cur, performance_id, student_id) :
                     /\ updated_data' = data
                     /\ IF data.kind = "error"
                        THEN response' = <<500>> /\ UNCHANGED store_vars
                        ELSE response' = <<200>> /\ SetStore(written.cur)

\* ------------------------------------- override, scale, create and delete
\* (override_raw, comment) of the forms posted to /performance/override.
OverrideForms == { <<"", "">>, <<"0", "seen">> }

post_update_grade_override(perf_id_raw, student_id_raw, override_raw, comment) ==
    /\ request' = [handler |-> "update_grade_override", perf_id_raw |-> perf_id_raw,
                   student_id_raw |-> student_id_raw]
    /\ updated_data' = NoData
    /\ UNCHANGED <<timetable_vars, performance_queries,
                   performance_tasks, performance_task_results, grade_scales>>
    /\ IF int(perf_id_raw) = <<"ValueError">> \/ int(student_id_raw) = <<"ValueError">>
       THEN /\ response' = <<400>>
            /\ UNCHANGED <<performance_results, change_log>>
       ELSE LET perf_id == int(perf_id_raw)[2]
                student_id == int(student_id_raw)[2]
                override_val ==
                    IF override_raw = "" \/ float(override_raw) = <<"ValueError">>
                    THEN None ELSE float(override_raw)
                rows == {r \in performance_results :
                           r.performance_id = perf_id /\ r.student_id = student_id}
            IN  /\ performance_results' =
                      { IF r \in rows
                        THEN [r EXCEPT !.grade_override = Bind(override_val),
                                       !.comment = IF comment = "" THEN None
                                                   ELSE Text(comment)]
                        ELSE r : r \in performance_results }
                /\ response' = <<303>>
                /\ \E old_row \in (IF rows = {} THEN {NoRow} ELSE rows) :
                      LET old_override == IF old_row = NoRow THEN None
                                          ELSE old_row.grade_override
                          old_comment == IF old_row = NoRow \/ old_row.comment = None
                                         THEN "" ELSE old_row.comment[2]
                      IN  IF override_val # old_override \/ comment # old_comment
                          THEN /\ change_log < MaxLog
                               /\ change_log' = change_log + 1
                          ELSE UNCHANGED change_log

post_assign_grade_scale(perf_id_raw, scale_id_raw) ==
    /\ request' = [handler |-> "assign_grade_scale", perf_id_raw |-> perf_id_raw,
                   scale_id_raw |-> scale_id_raw]
    /\ updated_data' = NoData
    /\ UNCHANGED <<timetable_vars, performance_tasks,
                   performance_results, performance_task_results, grade_scales>>
    /\ IF int(perf_id_raw) = <<"ValueError">> \/ int(scale_id_raw) = <<"ValueError">>
       THEN /\ response' = <<400>>
            /\ UNCHANGED <<performance_queries, change_log>>
       ELSE LET perf_id == int(perf_id_raw)[2]
                scale_id == int(scale_id_raw)[2]
            IN  /\ performance_queries' =
                      { IF p.id = perf_id
                        THEN [p EXCEPT !.grade_scale_id =
                                 IF scale_id > 0 THEN scale_id ELSE NULL]
                        ELSE p : p \in performance_queries }
                /\ change_log < MaxLog
                /\ change_log' = change_log + 1
                /\ response' = <<303>>

\* max_points: the comma-separated parts float() takes, padded with 0.0 up
\* to task_count.
RECURSIVE max_points_list(_)
max_points_list(parts) ==
    IF parts = <<>> THEN <<>>
    ELSE (IF parts[1] = "" \/ ~IsReal(float(parts[1])) THEN <<>>
          ELSE <<float(parts[1])[2]>>) \o max_points_list(Tail(parts))

post_performance_create(task_count_raw, max_points) ==
    LET task_count == IF int(task_count_raw) = <<"ValueError">> THEN 0
                      ELSE int(task_count_raw)[2]
        list == max_points_list(max_points)
        perf_id == NewId(performance_queries)
        first_id == NewId(performance_tasks)
    IN  /\ perf_id <= MaxPerfId
        /\ change_log < MaxLog
        /\ request' = [handler |-> "create", perf_id |-> perf_id]
        /\ performance_queries' = performance_queries \cup {PerfRow(perf_id, NULL)}
        /\ performance_tasks' = performance_tasks \cup
              { TaskRow(first_id + i - 1, perf_id, i,
                        IF i <= Len(list) THEN list[i] ELSE 0) : i \in 1..task_count }
        /\ change_log' = change_log + 1
        /\ response' = <<200>>
        /\ updated_data' = NoData
        /\ UNCHANGED <<timetable_vars, performance_results,
                       performance_task_results, grade_scales>>

post_performance_delete(id_raw) ==
    /\ request' = [handler |-> "delete", id_raw |-> id_raw]
    /\ updated_data' = NoData
    /\ UNCHANGED <<timetable_vars, performance_tasks,
                   performance_results, performance_task_results, grade_scales>>
    /\ IF int(id_raw) = <<"ValueError">> \/ int(id_raw)[2] <= 0
       THEN /\ response' = <<400>>
            /\ UNCHANGED <<performance_queries, change_log>>
       ELSE \* foreign keys are not switched on for the connection, so the
            \* ON DELETE CASCADE clauses of the schema do nothing
            /\ performance_queries' = {p \in performance_queries : p.id # int(id_raw)[2]}
            /\ change_log < MaxLog
            /\ change_log' = change_log + 1
            /\ response' = <<303>>

\* The requests served: ids as the forms and the JSON bodies carry them, and
\* for each handler with a 400 answer one request that gets it.
JsonStudentIds == {1, 2}

NextPerf ==
    \/ post_performance_create("1", <<"2">>)
    \/ \E scale_id_raw \in {"0", "1", "x"} : post_assign_grade_scale("1", scale_id_raw)
    \/ \E csv_data \in CsvFiles : post_performance_import("1", csv_data)
    \/ post_performance_import("x", <<>>)
    \/ \E form \in OverrideForms :
          post_update_grade_override("1", "1", form[1], form[2])
    \/ post_update_grade_override("1", "x", "", "")
    \/ \E student_id \in JsonStudentIds, scores \in ScoreBodies :
          post_performance_update_student_scores(1, student_id, scores)
    \/ post_performance_update_student_scores(Missing, 1, <<>>)
    \/ \E id_raw \in {"1", "0"} : post_performance_delete(id_raw)

SpecPerf == Init /\ [][NextPerf]_vars

\* --------------------------------------- properties of the result tables
ResultsOf(results, performance_id, student_id) ==
    {r \in results : r.performance_id = performance_id /\ r.student_id = student_id}

UpdateSucceeded ==
    request'.handler = "update_student_scores" /\ response' = <<200>>

\* The scores of a body whose key names a task, as (task number, value).
SubmittedTasks(scores) ==
    { <<int(task_key_part[scores[i][1]])[2], scores[i][2]>> :
        i \in {j \in 1..Len(scores) :
                 /\ scores[j][1] \in DOMAIN task_key_part
                 /\ int(task_key_part[scores[j][1]]) # <<"ValueError">>} }

\* C15: after a successful update of a student's scores every submitted
\* task value is stored with is_edited = 1, and a submitted op_points or
\* zp_points is stored in the student's performance_results row with its
\* edited flag set, whatever the store held before.
C15_UpdateStoresEverySubmittedScore ==
    [][UpdateSucceeded =>
        LET performance_id == request'.performance_id
            student_id == request'.student_id
            scores == request'.scores
            rows == ResultsOf(performance_results', performance_id, student_id)
            task_rows == ResultsOf(performance_task_results', performance_id, student_id)
        IN  /\ \A t \in SubmittedTasks(scores) :
                  \E r \in task_rows :
                      r.task_number = t[1] /\ Real(r.points) = t[2] /\ r.is_edited = 1
            /\ HasKey(scores, "op_points") =>
                  \E r \in rows : /\ r.op_points = ValueOf(scores, "op_points")
                                  /\ r.op_is_edited = 1
            /\ HasKey(scores, "zp_points") =>
                  \E r \in rows : /\ r.zp_points = ValueOf(scores, "zp_points")
                                  /\ r.zp_is_edited = 1
    ]_vars

ImportSucceeded == request'.handler = "import" /\ response' = <<303>>
ImportFailed == request'.handler = "import" /\ response' = <<500>>

\* Positions of the data lines of an upload that name a student.
TakenLines(csv_data) == {i \in 2..Len(csv_data) : line_taken(csv_data[i])}

\* A performance_results row as a data line gives it: no override, no
\* comment, no edited flag.
FromLine(r, parts, task_count) ==
    /\ r.student_id = int(parts[1])[2]
    /\ r.op_points = Bind(line_op(parts, task_count))
    /\ r.zp_points = Bind(line_zp(parts, task_count))
    /\ r.grade_override = None /\ r.comment = None
    /\ r.op_is_edited = 0 /\ r.zp_is_edited = 0

\* A performance_task_results row as value k of a data line gives it.
FromValue(r, parts, task_count, k) ==
    /\ r.student_id = int(parts[1])[2]
    /\ r.task_number = k
    /\ Real(r.points) = cell_float(line_values(parts, task_count)[k])
    /\ r.is_edited = 0

RECURSIVE ValueCount(_, _, _)
\* The number of task values on the given data lines.
ValueCount(csv_data, lines, task_count) ==
    IF lines = {} THEN 0
    ELSE LET i == CHOOSE x \in lines : TRUE
         IN  Len(line_values(csv_data[i], task_count))
             + ValueCount(csv_data, lines \ {i}, task_count)

\* C16: after a successful import for assessment A the rows of A in both
\* result tables are the ones the data lines of the upload give, one
\* performance_results row per line and one task row per value: nothing of
\* A from before, override, comment or edited flag, is left.
C16_ImportReplacesAllRows ==
    [][ImportSucceeded =>
        LET perf_id == int(request'.perf_id_raw)[2]
            csv_data == request'.csv_data
            task_count == Cardinality(task_numbers(csv_data[1]))
            taken == TakenLines(csv_data)
            rows == {r \in performance_results' : r.performance_id = perf_id}
            task_rows == {r \in performance_task_results' : r.performance_id = perf_id}
        IN  /\ Cardinality(rows) = Cardinality(taken)
            /\ \A r \in rows : \E i \in taken : FromLine(r, csv_data[i], task_count)
            /\ \A i \in taken : \E r \in rows : FromLine(r, csv_data[i], task_count)
            /\ Cardinality(task_rows) = ValueCount(csv_data, taken, task_count)
            /\ \A r \in task_rows : \E i \in taken :
                  \E k \in 1..Len(line_values(csv_data[i], task_count)) :
                      FromValue(r, csv_data[i], task_count, k)
            /\ \A i \in taken :
                  \A k \in 1..Len(line_values(csv_data[i], task_count)) :
                      \E r \in task_rows : FromValue(r, csv_data[i], task_count, k)
    ]_vars

\* An import that went through for an assessment whose rows carried an
\* override, a comment or an edited flag, and that read a student line.
C16_Witness ==
    /\ request.handler = "import" /\ response = <<303>>
    /\ request.had_edits
    /\ TakenLines(request.csv_data) # {}
    /\ \E r \in performance_results : r.performance_id = int(request.perf_id_raw)[2]

\* C17: an import that fails leaves both result tables as they were before
\* the request.
C17_FailedImportChangesNothing ==
    [][ImportFailed =>
        /\ performance_results' = performance_results
        /\ performance_task_results' = performance_task_results
    ]_vars

\* C18: performance_results holds at most one row per (assessment, student)
\* and performance_task_results at most one per (assessment, student, task).
C18_OneRowPerStudentAndTask ==
    /\ \A r1, r2 \in performance_results :
          (r1.performance_id = r2.performance_id /\ r1.student_id = r2.student_id)
              => r1 = r2
    /\ \A r1, r2 \in performance_task_results :
          (/\ r1.performance_id = r2.performance_id
           /\ r1.student_id = r2.student_id
           /\ r1.task_number = r2.task_number) => r1 = r2

Deleted == request'.handler = "delete" /\ response' = <<303>>
Created == request'.handler = "create" /\ response' = <<200>>

\* C19: once an assessment is deleted no task, result or task-result row
\* refers to its id, and a newly created assessment has no result rows.
C19_DeleteLeavesNoRowOfAssessment ==
    [][/\ Deleted =>
            LET pid == int(request'.id_raw)[2]
            IN  /\ \A r \in performance_tasks' : r.performance_id # pid
                /\ \A r \in performance_results' : r.performance_id # pid
                /\ \A r \in performance_task_results' : r.performance_id # pid
       /\ Created =>
            LET pid == request'.perf_id
            IN  /\ \A r \in performance_results' : r.performance_id # pid
                /\ \A r \in performance_task_results' : r.performance_id # pid
    ]_vars

\* A status change, an uncancel or a score update that was answered as done.
MutationDone ==
    \/ request'.handler \in {"update_status", "uncancel"} /\ response' = <<303>>
    \/ UpdateSucceeded

\* C20: every successful status change, uncancel and score update appends a
\* row to change_log before it answers.
C20_MutationsAreLogged ==
    [][MutationDone => change_log' = change_log + 1]_vars

\* ------------------------------------------------------------- rounding
\* The raw total the call summed: the student's task points, and op_points
\* and zp_points of the row fetchone() gave (0 without a row).
AskedRawTotals ==
    LET task_sum == Sum({r \in performance_task_results :
                           /\ r.performance_id = request.performance_id
                           /\ r.student_id = request.student_id}, "points")
    IN  IF AskedResults = {} THEN {task_sum}
        ELSE {task_sum + r.op_points[2] + r.zp_points[2] :
                r \in {q \in AskedResults : IsReal(q.op_points) /\ IsReal(q.zp_points)}}

Abs(x) == IF x < 0 THEN 0 - x ELSE x
Half == Unit \div 2
Quarter == Unit \div 4

\* C21: for a raw total that is a multiple of 0.25 the returned total is a
\* multiple of 0.5 at most 0.25 away from it, and a raw total halfway
\* between two multiples of 0.5 goes to the one whose double is even.
C21_RoundsToNearestHalfTiesToEven ==
    Returned =>
        \E raw \in AskedRawTotals :
            /\ raw % Quarter = 0
            /\ updated_data.total_points % Half = 0
            /\ Abs(updated_data.total_points - raw) <= Quarter
            /\ Abs(updated_data.total_points - raw) = Quarter =>
                  ((2 * updated_data.total_points) \div Unit) % 2 = 0

\* A raw total of 0.25 above a multiple of 1, where the tie goes down.
C21_Witness ==
    /\ Returned
    /\ \E raw \in AskedRawTotals :
          raw % Unit = Quarter /\ updated_data.total_points = raw - Quarter

\* --------------------------------------------------- scale definitions
\* Positions of the lines with exactly three fields whose second and third
\* are numerals.
NumericLines(lines) ==
    {i \in 1..Len(lines) :
        /\ Len(lines[i]) = 3
        /\ lines[i][2] \in DOMAIN numerals
        /\ lines[i][3] \in DOMAIN numerals}

\* The k-th smallest member of a set of positions.
Nth(S, k) == CHOOSE i \in S : Cardinality({j \in S : j <= i}) = k

\* lines without its i-th line.
Without(lines, i) == SubSeq(lines, 1, i - 1) \o SubSeq(lines, i + 1, Len(lines))

\* The bands are the numeric three-field lines, in their order.
ParsedInOrder(lines) ==
    LET bands == scale_def(lines)
        good == NumericLines(lines)
    IN  /\ Len(bands) = Cardinality(good)
        /\ \A k \in 1..Len(bands) :
              LET parts == lines[Nth(good, k)]
              IN  /\ bands[k].g = parts[1]
                  /\ bands[k].mi = Real(numerals[parts[2]])
                  /\ bands[k].ma = Real(numerals[parts[3]])

TestPercentages(bands) ==
    LET top == numerals["100.1"]
    IN  {k * Unit : k \in 0..(top \div Unit)}
          \cup {b \in {bands[i].mi[2] : i \in 1..Len(bands)}
                         \cup {bands[i].ma[2] : i \in 1..Len(bands)} :
                  0 <= b /\ b < top}

\* C30: under the seeded default scale every percentage from 0 up to, not
\* including, 100.1 lies in exactly one band.
C30_DefaultScaleCoversEachPercentageOnce ==
    \A s \in grade_scales :
        s.id = 1 =>
            LET bands == scale_def(s.definition)
            IN  \A p \in TestPercentages(bands) :
                    Cardinality(Holding(p, bands)) = 1

\* A grade given under the default scale, for the lowest and for a higher
\* band.
C30_Witness ==
    /\ Returned
    /\ \E p \in AskedPerformance : p.grade_scale_id = 1
    /\ AskedOverrides = {}
    /\ updated_data.grade \notin {Text(""), Text("6.0")}

\* ------------------------------------------------- unparseable scores
\* A JSON string that float() does not read as a number.
Unparseable(value) == value[1] = "text" /\ float(value[2]) = <<"ValueError">>

UpdateWithUnparseable ==
    /\ request'.handler = "update_student_scores"
    /\ \E i \in 1..Len(request'.scores) : Unparseable(request'.scores[i][2])

\* C22: an update whose scores hold an unparseable value is answered as
\* done, the unparseable value changes no stored op_points or zp_points,
\* and every other task value of the request is stored.
C22_UnparseableValueIsSkipped ==
    [][UpdateWithUnparseable =>
        LET performance_id == request'.performance_id
            student_id == request'.student_id
            scores == request'.scores
            task_rows == ResultsOf(performance_task_results', performance_id, student_id)
        IN  /\ response' = <<200>>
            /\ \A t \in SubmittedTasks(scores) :
                  ~Unparseable(t[2]) =>
                      \E r \in task_rows : r.task_number = t[1] /\ Real(r.points) = t[2]
            /\ (HasKey(scores, "op_points") /\ Unparseable(ValueOf(scores, "op_points"))) =>
                  \A r \in ResultsOf(performance_results', performance_id, student_id) :
                      \E q \in performance_results : q.id = r.id /\ q.op_points = r.op_points
    ]_vars

\* ------------------------------------------------- the returned score
UpdateDone == request.handler = "update_student_scores" /\ response = <<200>>

\* C24: the score a successful update returns is the one the calculation
\* gives on the store the update left committed.
C24_ReturnedScoreIsScoreOfCommittedStore ==
    UpdateDone =>
        LET rows == ResultsOf(performance_results, request.performance_id,
                              request.student_id)
        IN  updated_data \in
                { calculate_with(cur, request.performance_id, request.student_id, results) :
                    results \in (IF rows = {} THEN {NoRow} ELSE rows) }

\* An update of a student with a performance_results row that returned a
\* score with op_points or zp_points in it.
C24_Witness ==
    /\ UpdateDone /\ request.had_result
    /\ updated_data # NoData /\ updated_data.kind = "result"
    /\ \E r \in ResultsOf(performance_results, request.performance_id, request.student_id) :
          IsReal(r.op_points) /\ IsReal(r.zp_points) /\ r.op_points[2] + r.zp_points[2] > 0

\* ------------------------------------------------ scores above the maximum
\* The submitted task values above the max_points of their task.
AboveMaximum ==
    { t \in SubmittedTasks(request.scores) :
        /\ IsReal(json_float(t[2]))
        /\ \E u \in performance_tasks :
              /\ u.performance_id = request.performance_id /\ u.number = t[1]
              /\ json_float(t[2])[2] > u.max_points }

UpdateAboveMaximum ==
    /\ request.handler = "update_student_scores"
    /\ request.performance_id # Missing
    /\ AboveMaximum # {}

\* C25: an update with a task value above the task's max_points is
\* answered as done and the value is stored as submitted.
C25_ScoreAboveMaximumIsStored ==
    UpdateAboveMaximum =>
        /\ response = <<200>>
        /\ \A t \in AboveMaximum :
              \E r \in ResultsOf(performance_task_results, request.performance_id,
                                 request.student_id) :
                  r.task_number = t[1] /\ Real(r.points) = t[2]

\* ----------------------------------------------------- override keys
\* Two rows agree on (date, period, subject_id, class_id, course_id), a
\* NULL agreeing with a NULL.
SameOverrideKey(r, q) ==
    /\ r.date = q.date /\ r.period = q.period
    /\ r.subject_id = q.subject_id
    /\ r.class_id = q.class_id
    /\ r.course_id = q.course_id

\* C26: no two dated rows of the store agree on date, period, subject,
\* class and course, NULLs counted as equal.
C26_OverrideKeysAreUnique ==
    \A r \in Overrides(timetable), q \in Overrides(timetable) :
        SameOverrideKey(r, q) => r = q

\* A status change was repeated for a source row whose course is NULL while
\* the store holds overrides of two dates.
C26_Witness ==
    /\ request.handler = "update_status" /\ response = <<303>>
    /\ request.again
    /\ \E r \in Overrides(timetable), q \in Overrides(timetable) :
          /\ r.date = request.date /\ r.course_id = NULL
          /\ q.date # r.date /\ q.period = r.period /\ q.course_id = NULL

\* ------------------------------------------- resolution after a change
StatusChanged == request.handler = "update_status" /\ response = <<303>>

\* C27: after an accepted status change for source row R and date D, when
\* the store holds a single row of date D and R's period, the queries of the
\* home view for (D, R's period) give a row with the requested status and
\* R's subject, class and course.
C27_ChangedStatusIsResolved ==
    StatusChanged =>
        LET R == SourceRow(timetable, request.timetable_id)
            D == request.date
        IN  Cardinality(ExactDateRows(timetable, D, R.period)) = 1 =>
                /\ OwnRows(timetable, D, DayNameOf(D), R.period) # {}
                /\ \A row \in OwnRows(timetable, D, DayNameOf(D), R.period) :
                      /\ row.status = request.status
                      /\ row.subject_id = R.subject_id
                      /\ row.class_id = R.class_id
                      /\ row.course_id = R.course_id

\* A status change repeated for a date that an earlier override of the same
\* weekday and period, of another status, precedes.
C27_Witness ==
    /\ StatusChanged /\ request.again
    /\ LET R == SourceRow(timetable, request.timetable_id)
       IN  /\ Cardinality(ExactDateRows(timetable, request.date, R.period)) = 1
           /\ PastOverrideRows(timetable, request.date, DayNameOf(request.date),
                               R.period) # {}
           /\ \E row \in PastOverrideRows(timetable, request.date,
                                          DayNameOf(request.date), R.period) :
                 row.status # request.status

\* ------------------------------------------------- change, then revert
\* C28: a revert of the row that the status change just before inserted
\* leaves the store exactly as it was before that status change.
C28_RevertRestoresStore ==
    [][ ( /\ request'.handler = "uncancel"
          /\ UndoesLast(request'.timetable_id) )
        => timetable' = request.before ]_vars

\* A revert undid the status change before it while another override stays
\* in the store.
C28_Witness ==
    /\ request.handler = "uncancel" /\ response = <<303>>
    /\ request.undoes
    /\ request.timetable_id \notin Ids(timetable)
    /\ Overrides(timetable) # {}

\* ------------------------------------------ double lessons with a status
\* The overrides of date D made from a double template row of period P.
DoubleOverrides(D, P) ==
    {o \in ExactDateRows(timetable, D, P) :
        \E T \in Templates(timetable) :
            /\ T.is_double /\ T.period = P
            /\ o.is_double
            /\ o.subject_id = T.subject_id /\ o.class_id = T.class_id
            /\ o.course_id = T.course_id}

\* C29: in a home view, where a date has a single row for a period, an
\* override made from a double template row, and the following period has
\* no row of its own for that date, the following period shows the override
\* too.
C29_DoubleOverrideCoversNextPeriod ==
    HomeShown =>
      \A day_idx \in DayIdxs, i \in 1..(Len(period_list) - 1) :
        LET D == ViewDate(day_idx)
            P == period_list[i]
            Q == period_list[i + 1]
        IN  \A o \in DoubleOverrides(D, P) :
              ( /\ ExactDateRows(timetable, D, P) = {o}
                /\ OwnRows(timetable, D, DayNameOf(D), Q) = {} )
              => Entry(day_idx, Q) = o

====
